---- MODULE Spec2Model ----
(***************************************************************************)
(* Forward-mode automatic differentiation with dual numbers                *)
(* (src/src/forward.rs).                                                   *)
(*                                                                         *)
(* Dual<R> is generic over R: Real; the crate instantiates it with f64.    *)
(* A scalar of R is modelled as a small IEEE-754-like value: a record      *)
(*   [k |-> "fin" | "inf" | "nan", s |-> 1 | -1, m |-> magnitude]          *)
(* whose magnitude counts 1/Unit-ths, so that signed zeros, infinities,    *)
(* NaN and rounding all exist.  Small integers and their sums, differences *)
(* and products are exact, as they are in f64.                             *)
(***************************************************************************)
EXTENDS Integers, Sequences, FiniteSets, TLC

\* ------------------------------------------------------------------------
\* The scalar type R
\* ------------------------------------------------------------------------

\* Resolution of the modelled real type: one unit is 1.0.
Unit == 1000

Fin(s, m) == [k |-> "fin", s |-> s, m |-> m]
NaN       == [k |-> "nan", s |-> 1, m |-> 0]
Inf(s)    == [k |-> "inf", s |-> s, m |-> 0]

\* The scalar with the (scaled) integer value v; 0 is +0.0.
Num(v)  == IF v < 0 THEN Fin(-1, -v) ELSE Fin(1, v)
\* The scalar of the integer i.
OfInt(i) == Num(i * Unit)
Zero    == Fin(1, 0)
NegZero == Fin(-1, 0)
One     == Fin(1, Unit)

IsNaN(x)  == x.k = "nan"
IsFin(x)  == x.k = "fin"
IsZero(x) == x.k = "fin" /\ x.m = 0
\* The scaled integer value of a finite scalar (both zeros are 0).
Val(x)    == x.s * x.m

\* IEEE equality (==): NaN equals nothing, -0.0 equals +0.0.
NumEq(x, y) ==
    /\ ~IsNaN(x) /\ ~IsNaN(y)
    /\ x.k = y.k
    /\ IF x.k = "fin" THEN Val(x) = Val(y) ELSE x.s = y.s

\* -x
R_neg(x) == IF IsNaN(x) THEN NaN ELSE [x EXCEPT !.s = -x.s]

\* x + y
R_add(x, y) ==
    IF IsNaN(x) \/ IsNaN(y) THEN NaN
    ELSE IF x.k = "inf" /\ y.k = "inf" THEN (IF x.s = y.s THEN x ELSE NaN)
    ELSE IF x.k = "inf" THEN x
    ELSE IF y.k = "inf" THEN y
    ELSE LET v == Val(x) + Val(y) IN
         IF v = 0 THEN (IF x.s = -1 /\ y.s = -1 THEN NegZero ELSE Zero)
         ELSE Num(v)

\* x - y
R_sub(x, y) == R_add(x, R_neg(y))

\* (p * q) / Unit rounded to nearest, computed without forming p * q
MulMag(p, q) ==
    (p \div Unit) * q + ((p % Unit) * q + Unit \div 2) \div Unit

\* x * y, rounded to the nearest representable magnitude
R_mul(x, y) ==
    IF IsNaN(x) \/ IsNaN(y) THEN NaN
    ELSE IF x.k = "inf" \/ y.k = "inf"
         THEN (IF IsZero(x) \/ IsZero(y) THEN NaN ELSE Inf(x.s * y.s))
    ELSE Fin(x.s * y.s, MulMag(x.m, y.m))

\* x / y, rounded to the nearest representable magnitude
R_div(x, y) ==
    IF IsNaN(x) \/ IsNaN(y) THEN NaN
    ELSE IF x.k = "inf" THEN (IF y.k = "inf" THEN NaN ELSE Inf(x.s * y.s))
    ELSE IF y.k = "inf" THEN Fin(x.s * y.s, 0)
    ELSE IF y.m = 0 THEN (IF x.m = 0 THEN NaN ELSE Inf(x.s * y.s))
    ELSE Fin(x.s * y.s, (x.m * Unit + y.m \div 2) \div y.m)

\* |x|
R_abs(x) == IF IsNaN(x) THEN NaN ELSE [x EXCEPT !.s = 1]

\* signum: 1.0 for positive numbers, +0.0 and +inf; -1.0 for negative
\* numbers, -0.0 and -inf; NaN for NaN.
R_signum(x) == IF IsNaN(x) THEN NaN ELSE Fin(x.s, Unit)

RECURSIVE ISqrt(_)
ISqrt(n) ==
    IF n < 2 THEN n
    ELSE LET r == 2 * ISqrt(n \div 4) IN
         IF (r + 1) * (r + 1) <= n THEN r + 1 ELSE r

\* sqrt(x): NaN below zero, -0.0 for -0.0
R_sqrt(x) ==
    IF IsNaN(x) THEN NaN
    ELSE IF x.m = 0 /\ x.k = "fin" THEN x
    ELSE IF x.s = -1 THEN NaN
    ELSE IF x.k = "inf" THEN x
    ELSE LET v == x.m * Unit
             r == ISqrt(v)
         IN  Fin(1, IF v - r * r > r THEN r + 1 ELSE r)

\* ------------------------------------------------------------------------
\* The elementary functions of R, tabulated at the sample points (values of
\* the f64 functions rounded to 1/Unit).  Points are scaled by Unit.
\* ------------------------------------------------------------------------

ExpTab == (-3140 :> 43) @@ (-2000 :> 135) @@ (-1000 :> 368) @@ (-500 :> 607) @@ (0 :> 1000) @@ (500 :> 1649) @@ (1000 :> 2718) @@ (2000 :> 7389) @@ (3140 :> 23104)
LnTab == (500 :> -693) @@ (1000 :> 0) @@ (2000 :> 693) @@ (3140 :> 1144)
SinTab == (0 :> 0) @@ (500 :> 479) @@ (1000 :> 841) @@ (2000 :> 909) @@ (3140 :> 2)
CosTab == (0 :> 1000) @@ (500 :> 878) @@ (1000 :> 540) @@ (2000 :> -416) @@ (3140 :> -1000)
TanTab == (0 :> 0) @@ (500 :> 546) @@ (1000 :> 1557) @@ (2000 :> -2185) @@ (3140 :> -2)
AsinTab == (0 :> 0) @@ (500 :> 524) @@ (1000 :> 1571)
AcosTab == (-1000 :> 3142) @@ (-500 :> 2094) @@ (0 :> 1571) @@ (500 :> 1047) @@ (1000 :> 0)
AtanTab == (0 :> 0) @@ (500 :> 464) @@ (1000 :> 785) @@ (2000 :> 1107) @@ (3140 :> 1262)
SinhTab == (0 :> 0) @@ (500 :> 521) @@ (1000 :> 1175) @@ (2000 :> 3627) @@ (3140 :> 11530)
CoshTab == (0 :> 1000) @@ (500 :> 1128) @@ (1000 :> 1543) @@ (2000 :> 3762) @@ (3140 :> 11574)
TanhTab == (0 :> 0) @@ (500 :> 462) @@ (1000 :> 762) @@ (2000 :> 964) @@ (3140 :> 996)
AsinhTab == (0 :> 0) @@ (500 :> 481) @@ (1000 :> 881) @@ (2000 :> 1444) @@ (3140 :> 1862)
AtanhTab == (0 :> 0) @@ (500 :> 549)

\* An odd function with table t on the non-negative points: f(-x) = -f(x),
\* and f(-0.0) = -0.0.
OddFn(t, x) ==
    IF IsNaN(x) THEN NaN
    ELSE IF x.m = 0 THEN x
    ELSE Num(x.s * t[x.m])

\* An even function with table t on the non-negative points.
EvenFn(t, x) == IF IsNaN(x) THEN NaN ELSE Num(t[x.m])

R_exp(x)   == IF IsNaN(x) THEN NaN ELSE Num(ExpTab[Val(x)])
R_ln(x)    ==
    IF IsNaN(x) THEN NaN
    ELSE IF x.m = 0 THEN Inf(-1)
    ELSE IF x.s = -1 THEN NaN
    ELSE Num(LnTab[x.m])
R_sin(x)   == OddFn(SinTab, x)
R_cos(x)   == EvenFn(CosTab, x)
R_tan(x)   == OddFn(TanTab, x)
R_asin(x)  == IF ~IsNaN(x) /\ x.m > Unit THEN NaN ELSE OddFn(AsinTab, x)
R_acos(x)  ==
    IF IsNaN(x) \/ x.m > Unit THEN NaN ELSE Num(AcosTab[Val(x)])
R_atan(x)  == OddFn(AtanTab, x)
R_sinh(x)  == OddFn(SinhTab, x)
R_cosh(x)  == EvenFn(CoshTab, x)
R_tanh(x)  == OddFn(TanhTab, x)
R_asinh(x) == OddFn(AsinhTab, x)
R_atanh(x) ==
    IF IsNaN(x) \/ x.m > Unit THEN NaN
    ELSE IF x.m = Unit THEN Inf(x.s)
    ELSE OddFn(AtanhTab, x)

\* ------------------------------------------------------------------------
\* Dual<R>
\* ------------------------------------------------------------------------

Dual(re, gr) == [real |-> re, grad |-> gr]

real(self) == self.real
grad(self) == self.grad

\* abs with the mathematical sign, which is 0 at a zero real part
abs_sign_zero_at_zero(self) ==
    IF IsZero(self.real)
    THEN Dual(R_abs(self.real), R_mul(R_abs(self.grad), Zero))
    ELSE Dual(R_abs(self.real), R_mul(R_abs(self.grad), R_signum(self.real)))

abs(self) ==
    Dual(R_abs(self.real), R_mul(R_abs(self.grad), R_signum(self.real)))

mul_assign(self, other) ==
    Dual(R_mul(self.real, other.real),
         R_add(R_mul(self.real, other.grad), R_mul(self.grad, other.real)))

\* The loop `for _ in 1..n { result *= result.clone(); }` with i iterations
\* left to run.
RECURSIVE pow_loop(_, _)
pow_loop(result, i) ==
    IF i <= 0 THEN result
    ELSE pow_loop(mul_assign(result, result), i - 1)

\* pow with the case n = 0 handled as x^0 = 1, grad = 0
pow_zero_is_one(self, n) ==
    IF n = 0 THEN Dual(One, Zero)
    ELSE IF n = 1 THEN self
    ELSE pow_loop(self, n - 1)

pow(self, n) ==
    IF n = 1 THEN self
    ELSE pow_loop(self, n - 1)

exp(self) == Dual(R_exp(self.real), R_mul(self.grad, R_exp(self.real)))

ln(self) == Dual(R_ln(self.real), R_div(self.grad, self.real))

\* sin with the derivative left as sin
sin_grad_sin(self) ==
    Dual(R_sin(self.real), R_mul(self.grad, R_sin(self.real)))

sin(self) == Dual(R_sin(self.real), R_mul(self.grad, R_cos(self.real)))

cos(self) ==
    Dual(R_cos(self.real), R_mul(R_neg(self.grad), R_sin(self.real)))

tan(self) ==
    Dual(R_tan(self.real),
         R_div(self.grad, R_mul(R_cos(self.real), R_cos(self.real))))

\* the unit constant without the trailing .abs()
unit_of_signum_only(x) == R_signum(x)

\* self.real.signum().abs(), the code's unit constant
unit_of(x) == R_abs(R_signum(x))

asin(self) ==
    Dual(R_asin(self.real),
         R_div(self.grad,
               R_sqrt(R_sub(unit_of(self.real), R_mul(self.real, self.real)))))

acos(self) ==
    Dual(R_acos(self.real),
         R_div(R_neg(self.grad),
               R_sqrt(R_sub(unit_of(self.real), R_mul(self.real, self.real)))))

atan(self) ==
    Dual(R_atan(self.real),
         R_div(self.grad,
               R_add(unit_of(self.real), R_mul(self.real, self.real))))

sinh(self) == Dual(R_sinh(self.real), R_mul(self.grad, R_cosh(self.real)))

cosh(self) == Dual(R_cosh(self.real), R_mul(self.grad, R_sinh(self.real)))

tanh(self) ==
    Dual(R_tanh(self.real),
         R_div(R_mul(self.grad,
                     R_sub(R_exp(self.real), R_exp(R_neg(self.real)))),
               R_add(R_exp(self.real), R_exp(R_neg(self.real)))))

asinh(self) ==
    Dual(R_asinh(self.real),
         R_div(self.grad,
               R_sqrt(R_add(unit_of(self.real), R_mul(self.real, self.real)))))

acosh(self) ==
    Dual(R_acos(self.real),
         R_div(self.grad,
               R_sqrt(R_add(R_neg(unit_of(self.real)),
                            R_mul(self.real, self.real)))))

atanh(self) ==
    Dual(R_atanh(self.real),
         R_div(self.grad,
               R_sub(unit_of(self.real), R_mul(self.real, self.real))))

add(self, other) ==
    Dual(R_add(self.real, other.real), R_add(self.grad, other.grad))

add_assign(self, other) ==
    Dual(R_add(self.real, other.real), R_add(self.grad, other.grad))

div(self, other) ==
    Dual(R_div(self.real, other.real),
         R_add(R_div(self.real, other.grad), R_div(self.grad, other.real)))

\* div_assign with the quotient rule, unlike div
div_assign_quotient_rule(self, other) ==
    Dual(R_div(self.real, other.real),
         R_div(R_sub(R_mul(self.grad, other.real),
                     R_mul(self.real, other.grad)),
               R_mul(other.real, other.real)))

div_assign(self, other) ==
    Dual(R_div(self.real, other.real),
         R_add(R_div(self.real, other.grad), R_div(self.grad, other.real)))

\* mul with the cross terms of the product rule forgotten
mul_fieldwise(self, other) ==
    Dual(R_mul(self.real, other.real), R_mul(self.grad, other.grad))

mul(self, other) ==
    Dual(R_mul(self.real, other.real),
         R_add(R_mul(self.real, other.grad), R_mul(self.grad, other.real)))

\* neg negating each field in place
neg_fieldwise(self) == Dual(R_neg(self.real), R_neg(self.grad))

neg(self) == Dual(R_neg(self.grad), R_neg(self.real))

sub(self, other) ==
    Dual(R_sub(self.real, other.real), R_sub(self.grad, other.grad))

sub_assign(self, other) ==
    Dual(R_sub(self.real, other.real), R_sub(self.grad, other.grad))

\* The closure of the tests: |x| x*x + x.sin()
f(x) == add(mul(x, x), sin(x))

\* ------------------------------------------------------------------------
\* State: a caller holding Dual values and applying the operations to them
\* ------------------------------------------------------------------------

VARIABLES
    a,      \* the receiver (self); the assign operators overwrite it
    b,      \* the second operand (other)
    n,      \* the exponent handed to pow
    op,     \* the operation applied last, "new" after construction
    ret,    \* the Dual the last operation returned
    a0,     \* the receiver as it was when the last operation was called
    b0,     \* the second operand as it was when the last operation was called
    calls,  \* operations applied so far in a chain of arithmetic
    x,      \* the integer point a composed polynomial is evaluated at
    reg,    \* the Duals of a composition in progress
    poly    \* for each of them, the coefficients of the polynomial composed

vars == <<a, b, n, op, ret, a0, b0, calls, x, reg, poly>>

\* Bounds of the model
MaxGrad  == 2   \* seeds of the elementary functions range over -MaxGrad..MaxGrad
MaxInt   == 1   \* operands of the arithmetic operators range over -MaxInt..MaxInt
MaxCalls == 2   \* length of a chain of arithmetic operations
MaxBase  == 2   \* parts of the Dual handed to pow range over -MaxBase..MaxBase
MaxN     == 3   \* exponents handed to pow range over 0..MaxN
MaxOps   == 3   \* operators in a composed polynomial

D0 == Dual(Zero, Zero)

\* The points the elementary functions are tabulated at, and -0.0
SamplePoints ==
    {Num(v) : v \in {-3140, -2000, -1000, -500, 0, 500, 1000, 2000, 3140}}
        \cup {NegZero}

UnaryInputs ==
    {Dual(re, OfInt(g)) : re \in SamplePoints, g \in -MaxGrad..MaxGrad}

IntScalars(k) == {OfInt(i) : i \in -k..k}

ArithInputs ==
    {Dual(re, gr) : re \in IntScalars(MaxInt) \cup {NegZero},
                    gr \in IntScalars(MaxInt)}

PowInputs ==
    {Dual(re, gr) : re \in IntScalars(MaxBase), gr \in IntScalars(MaxBase)}

\* No composition in progress
NoComposition ==
    /\ calls = 0
    /\ x = 0
    /\ reg = [i \in 1..2 |-> D0]
    /\ poly = [i \in 1..2 |-> <<>>]

\* ---- the elementary functions, abs, neg and the closure of the tests ----

\* A call that takes its operands by value and returns a new Dual: the
\* caller's values stay as they are.
ByValue ==
    /\ a0' = a
    /\ b0' = b
    /\ UNCHANGED <<a, b, n, calls, x, reg, poly>>

Abs ==
    /\ op' = "abs"
    /\ ret' = abs(a)
    /\ ByValue

Exp ==
    /\ op' = "exp"
    /\ ret' = exp(a)
    /\ ByValue

Ln ==
    /\ op' = "ln"
    /\ ret' = ln(a)
    /\ ByValue

Sin ==
    /\ op' = "sin"
    /\ ret' = sin(a)
    /\ ByValue

Cos ==
    /\ op' = "cos"
    /\ ret' = cos(a)
    /\ ByValue

Tan ==
    /\ op' = "tan"
    /\ ret' = tan(a)
    /\ ByValue

Asin ==
    /\ op' = "asin"
    /\ ret' = asin(a)
    /\ ByValue

Acos ==
    /\ op' = "acos"
    /\ ret' = acos(a)
    /\ ByValue

Atan ==
    /\ op' = "atan"
    /\ ret' = atan(a)
    /\ ByValue

Sinh ==
    /\ op' = "sinh"
    /\ ret' = sinh(a)
    /\ ByValue

Cosh ==
    /\ op' = "cosh"
    /\ ret' = cosh(a)
    /\ ByValue

Tanh ==
    /\ op' = "tanh"
    /\ ret' = tanh(a)
    /\ ByValue

Asinh ==
    /\ op' = "asinh"
    /\ ret' = asinh(a)
    /\ ByValue

Acosh ==
    /\ op' = "acosh"
    /\ ret' = acosh(a)
    /\ ByValue

Atanh ==
    /\ op' = "atanh"
    /\ ret' = atanh(a)
    /\ ByValue

Neg ==
    /\ op' = "neg"
    /\ ret' = neg(a)
    /\ ByValue

F ==
    /\ op' = "f"
    /\ ret' = f(a)
    /\ ByValue

InitUnary ==
    /\ a \in UnaryInputs
    /\ b = D0 /\ a0 = a /\ b0 = b
    /\ op = "new" /\ ret = a
    /\ n = 0
    /\ NoComposition

NextUnary ==
    \/ Abs \/ Exp \/ Ln \/ Sin \/ Cos \/ Tan \/ Asin \/ Acos \/ Atan
    \/ Sinh \/ Cosh \/ Tanh \/ Asinh \/ Acosh \/ Atanh \/ Neg \/ F

SpecUnary == InitUnary /\ [][NextUnary]_vars

\* ---- pow ----

Pow ==
    /\ op' = "pow"
    /\ ret' = pow(a, n)
    /\ ByValue

InitPow ==
    /\ a \in PowInputs
    /\ n \in 0..MaxN
    /\ b = D0 /\ a0 = a /\ b0 = b
    /\ op = "new" /\ ret = a
    /\ NoComposition

SpecPow == InitPow /\ [][Pow]_vars

\* ---- the arithmetic operators and their assign variants ----

Add ==
    /\ op' = "add"
    /\ ret' = add(a, b)
    /\ ByValue

Sub ==
    /\ op' = "sub"
    /\ ret' = sub(a, b)
    /\ ByValue

Mul ==
    /\ op' = "mul"
    /\ ret' = mul(a, b)
    /\ ByValue

Div ==
    /\ op' = "div"
    /\ ret' = div(a, b)
    /\ ByValue

\* A call through &mut self: the receiver is overwritten, nothing is returned.
InPlace ==
    /\ calls < MaxCalls
    /\ calls' = calls + 1
    /\ a0' = a
    /\ b0' = b
    /\ UNCHANGED <<b, n, ret, x, reg, poly>>

AddAssign ==
    /\ op' = "add_assign"
    /\ a' = add_assign(a, b)
    /\ InPlace

SubAssign ==
    /\ op' = "sub_assign"
    /\ a' = sub_assign(a, b)
    /\ InPlace

MulAssign ==
    /\ op' = "mul_assign"
    /\ a' = mul_assign(a, b)
    /\ InPlace

DivAssign ==
    /\ op' = "div_assign"
    /\ a' = div_assign(a, b)
    /\ InPlace

InitArith ==
    /\ a \in ArithInputs
    /\ b \in ArithInputs
    /\ a0 = a /\ b0 = b
    /\ op = "new" /\ ret = a
    /\ n = 0
    /\ NoComposition

NextArith ==
    \/ Add \/ Sub \/ Mul \/ Div
    \/ AddAssign \/ SubAssign \/ MulAssign \/ DivAssign

SpecArith == InitArith /\ [][NextArith]_vars

\* ---- compositions of add, sub and mul from the seed and constants ----

\* A polynomial is the sequence of its coefficients, lowest degree first,
\* without trailing zeros.
Coef(p, i) == IF i >= 1 /\ i <= Len(p) THEN p[i] ELSE 0

RECURSIVE Trim(_)
Trim(p) ==
    IF Len(p) > 0 /\ p[Len(p)] = 0 THEN Trim(SubSeq(p, 1, Len(p) - 1)) ELSE p

MaxLen(p, q) == IF Len(p) >= Len(q) THEN Len(p) ELSE Len(q)

PolyAdd(p, q) == Trim([i \in 1..MaxLen(p, q) |-> Coef(p, i) + Coef(q, i)])

PolySub(p, q) == Trim([i \in 1..MaxLen(p, q) |-> Coef(p, i) - Coef(q, i)])

RECURSIVE Conv(_, _, _, _)
Conv(p, q, i, j) ==
    IF j > i THEN 0 ELSE Coef(p, j) * Coef(q, i - j + 1) + Conv(p, q, i, j + 1)

PolyMul(p, q) ==
    IF Len(p) = 0 \/ Len(q) = 0 THEN <<>>
    ELSE Trim([i \in 1..(Len(p) + Len(q) - 1) |-> Conv(p, q, i, 1)])

RECURSIVE IPow(_, _)
IPow(v, k) == IF k = 0 THEN 1 ELSE v * IPow(v, k - 1)

RECURSIVE PolyEval(_, _, _)
\* p(v), summed from the term of index i on
PolyEval(p, v, i) ==
    IF i > Len(p) THEN 0 ELSE p[i] * IPow(v, i - 1) + PolyEval(p, v, i + 1)

RECURSIVE PolyDeriv(_, _, _)
\* p'(v), summed from the term of index i (>= 2) on
PolyDeriv(p, v, i) ==
    IF i > Len(p) THEN 0
    ELSE (i - 1) * p[i] * IPow(v, i - 2) + PolyDeriv(p, v, i + 1)

\* The largest magnitude an operand of a composition step may have
MaxVal == 1000

Small(s) == IsFin(s) /\ s.m <= MaxVal * Unit

\* An operand of a composition step: a Dual and the polynomial it stands for
Operand(d, p) == [d |-> d, p |-> p]

\* Dual { real: x, grad: 1 }, the variable of differentiation
Seed == Operand(Dual(OfInt(x), One), <<0, 1>>)

\* Dual { real: c, grad: 0 }, a constant
Const(c) == Operand(Dual(OfInt(c), Zero), Trim(<<c>>))

\* The points compositions are evaluated at
Points == {-2, 0, 1, 3}

\* The constants compositions are built from
Constants == {-1, 2}

\* The values composed so far
Composites == {Operand(reg[i], poly[i]) : i \in 1..2}

\* What a step may combine: the values composed so far, the seed, constants
Operands == Composites \cup {Seed} \cup {Const(c) : c \in Constants}

CanCompose(l, r) ==
    /\ calls < MaxOps
    /\ l \in Composites \/ r \in Composites
    /\ Small(l.d.real) /\ Small(l.d.grad)
    /\ Small(r.d.real) /\ Small(r.d.grad)

\* The step's result d (the polynomial p) becomes reg[1]; the value reg[1]
\* held is either kept as reg[2] or dropped.
Composed(d, p, keep) ==
    /\ reg' = [reg EXCEPT ![1] = d, ![2] = IF keep THEN reg[1] ELSE reg[2]]
    /\ poly' = [poly EXCEPT ![1] = p, ![2] = IF keep THEN poly[1] ELSE poly[2]]
    /\ calls' = calls + 1
    /\ UNCHANGED <<a, b, n, op, ret, a0, b0, x>>

\* l + r
ComposeAdd ==
    \E l \in Operands, r \in Operands, keep \in BOOLEAN :
        /\ CanCompose(l, r)
        /\ Composed(add(l.d, r.d), PolyAdd(l.p, r.p), keep)

\* l - r
ComposeSub ==
    \E l \in Operands, r \in Operands, keep \in BOOLEAN :
        /\ CanCompose(l, r)
        /\ Composed(sub(l.d, r.d), PolySub(l.p, r.p), keep)

\* l * r
ComposeMul ==
    \E l \in Operands, r \in Operands, keep \in BOOLEAN :
        /\ CanCompose(l, r)
        /\ Composed(mul(l.d, r.d), PolyMul(l.p, r.p), keep)

InitPoly ==
    /\ x \in Points
    /\ reg = [i \in 1..2 |-> Seed.d]
    /\ poly = [i \in 1..2 |-> Seed.p]
    /\ calls = 0
    /\ a = D0 /\ b = D0 /\ a0 = D0 /\ b0 = D0
    /\ op = "new" /\ ret = D0
    /\ n = 0

NextPoly == ComposeAdd \/ ComposeSub \/ ComposeMul

SpecPoly == InitPoly /\ [][NextPoly]_vars

\* ========================================================================
\* Properties
\* ========================================================================

Seeded == NumEq(a.grad, One)

\* The integer a finite scalar with an integral value stands for
AsInt(s) == Val(s) \div Unit

\* C2: for every Dual d and every n >= 1, d.pow(n) is the n-fold product:
\* pow(n).real = d.real^n and pow(n).grad = n * d.real^(n-1) * d.grad.
Claim_C2 ==
    (op = "pow" /\ n >= 1) =>
        /\ NumEq(ret.real, OfInt(IPow(AsInt(a.real), n)))
        /\ NumEq(ret.grad,
                 OfInt(n * IPow(AsInt(a.real), n - 1) * AsInt(a.grad)))

\* C3: with seed grad 1, f = x*x + x.sin() yields grad = 2*x + cos(x) and
\* real = x*x + sin(x); at x = 0 the grad is exactly 1, inside (0.9, 1.1),
\* and at x = 3.14 the grad lies inside (5.2, 5.3).
Thm_C3 ==
    (op = "f" /\ Seeded) =>
        /\ NumEq(ret.grad, R_add(R_mul(OfInt(2), a.real), R_cos(a.real)))
        /\ NumEq(ret.real, R_add(R_mul(a.real, a.real), R_sin(a.real)))
        /\ IsZero(a.real) =>
              /\ NumEq(ret.grad, One)
              /\ 9 * Unit < 10 * Val(ret.grad)
              /\ 10 * Val(ret.grad) < 11 * Unit
        /\ Val(a.real) = 3140 =>
              /\ 52 * Unit < 10 * Val(ret.grad)
              /\ 10 * Val(ret.grad) < 53 * Unit

Wit_C3 == op = "f" /\ Seeded /\ Val(a.real) = 3140 /\ IsFin(ret.grad)

\* The elementary functions C4 lists
ElemOps ==
    {"exp", "ln", "sin", "cos", "tan", "asin", "acos", "atan",
     "sinh", "cosh", "tanh", "asinh", "acosh", "atanh"}

\* The points of the real domain where function fn is differentiable
InDomain(fn, v) ==
    CASE fn = "ln" -> Val(v) > 0
      [] fn \in {"asin", "acos", "atanh"} -> v.m < Unit
      [] fn = "acosh" -> Val(v) > Unit
      [] OTHER -> TRUE

\* The inverse hyperbolic cosine of R, which the code never calls
AcoshTab == (1000 :> 0) @@ (2000 :> 1317) @@ (3140 :> 1811)
R_acosh(v) ==
    IF IsNaN(v) \/ Val(v) < Unit THEN NaN ELSE Num(AcoshTab[v.m])

\* The scalar function fn
ScalarFn(fn, v) ==
    CASE fn = "exp" -> R_exp(v)     [] fn = "ln" -> R_ln(v)
      [] fn = "sin" -> R_sin(v)     [] fn = "cos" -> R_cos(v)
      [] fn = "tan" -> R_tan(v)     [] fn = "asin" -> R_asin(v)
      [] fn = "acos" -> R_acos(v)   [] fn = "atan" -> R_atan(v)
      [] fn = "sinh" -> R_sinh(v)   [] fn = "cosh" -> R_cosh(v)
      [] fn = "tanh" -> R_tanh(v)   [] fn = "asinh" -> R_asinh(v)
      [] fn = "acosh" -> R_acosh(v) [] fn = "atanh" -> R_atanh(v)

Sq(v) == R_mul(v, v)

\* The closed-form derivative of fn, written with the literal unit
Derivative(fn, v) ==
    CASE fn = "exp" -> R_exp(v)
      [] fn = "ln" -> R_div(One, v)
      [] fn = "sin" -> R_cos(v)
      [] fn = "cos" -> R_neg(R_sin(v))
      [] fn = "tan" -> R_div(One, Sq(R_cos(v)))
      [] fn = "asin" -> R_div(One, R_sqrt(R_sub(One, Sq(v))))
      [] fn = "acos" -> R_neg(R_div(One, R_sqrt(R_sub(One, Sq(v)))))
      [] fn = "atan" -> R_div(One, R_add(One, Sq(v)))
      [] fn = "sinh" -> R_cosh(v)
      [] fn = "cosh" -> R_sinh(v)
      [] fn = "tanh" -> R_sub(One, Sq(R_tanh(v)))
      [] fn = "asinh" -> R_div(One, R_sqrt(R_add(One, Sq(v))))
      [] fn = "acosh" -> R_div(One, R_sqrt(R_sub(Sq(v), One)))
      [] fn = "atanh" -> R_div(One, R_sub(One, Sq(v)))

\* C4: for every listed elementary function f and every in-domain x,
\* f(Dual{real: x, grad: 1}).grad is the closed-form derivative f'(x) and
\* the real part is the scalar function f applied to x.
Claim_C4 ==
    (op \in ElemOps /\ Seeded /\ InDomain(op, a.real)) =>
        /\ NumEq(ret.grad, Derivative(op, a.real))
        /\ NumEq(ret.real, ScalarFn(op, a.real))

\* C5: for every Dual a with a positive or a negative real part and a grad of
\* any sign, a.abs() returns real = |a.real| and grad = a.grad * sign(a.real).
Claim_C5 ==
    (op = "abs" /\ ~IsZero(a.real)) =>
        /\ NumEq(ret.real, R_abs(a.real))
        /\ NumEq(ret.grad, R_mul(a.grad, OfInt(a.real.s)))

\* C7: negation returns the pair with swapped and negated fields,
\* (-a).real = -a.grad and (-a).grad = -a.real, which is not
\* {real: -a.real, grad: -a.grad} whenever the two fields differ.
Thm_C7 ==
    op = "neg" =>
        /\ real(ret) = R_neg(grad(a))
        /\ grad(ret) = R_neg(real(a))
        /\ ~NumEq(a.real, a.grad) =>
              ~(NumEq(ret.real, R_neg(a.real)) /\ NumEq(ret.grad, R_neg(a.grad)))

Wit_C7 == op = "neg" /\ Val(a.real) = 500 /\ Val(a.grad) = -2 * Unit

\* C8 as stated: for every Dual a with a.real = 0, a.abs() returns grad = 0.
Claim_C8 == (op = "abs" /\ IsZero(a.real)) => IsZero(ret.grad)

\* C8 amended: for a.real = 0, a.abs() returns grad = |a.grad| when the zero
\* is +0.0 and -|a.grad| when it is -0.0, because signum of a zero is 1 or
\* -1; the grad is 0 only when a.grad is 0.
Thm_C8 ==
    (op = "abs" /\ IsZero(a.real)) =>
        /\ IsFin(ret.grad)
        /\ Val(ret.grad) = a.real.s * Val(R_abs(a.grad))
        /\ IsZero(ret.grad) <=> IsZero(a.grad)

Wit_C8 == op = "abs" /\ a.real = Zero /\ Val(a.grad) = -Unit /\ ret.grad = One

\* The functions that build their unit constant as signum(a.real).abs()
UnitOps == {"asin", "acos", "atan", "asinh", "acosh", "atanh"}

\* C9 as stated: the unit constant is 1 for every nonzero a.real and 0 when
\* a.real is exactly 0.
Claim_C9 ==
    op \in UnitOps =>
        NumEq(unit_of(a.real), IF IsZero(a.real) THEN Zero ELSE One)

\* C9 amended: the unit constant is 1 for every a.real, zero included, so at
\* a.real = 0 the denominators are built from 1: atan and atanh return
\* grad = a.grad / 1 there.
Thm_C9 ==
    op \in UnitOps =>
        /\ unit_of(a.real) = One
        /\ (IsZero(a.real) /\ op \in {"atan", "atanh", "asin", "asinh"}) =>
              NumEq(ret.grad, a.grad)

Wit_C9 == op = "atan" /\ IsZero(a.real) /\ Val(a.grad) = 2 * Unit /\ ret.grad = a.grad

\* C10: pow(0) and pow(1) return the Dual unchanged; pow(0) is not the
\* constant Dual{real: 1, grad: 0}.
Thm_C10 ==
    (op = "pow" /\ n <= 1) =>
        /\ ret = a
        /\ (n = 0 /\ a # Dual(One, Zero)) => ret # Dual(One, Zero)

Wit_C10 == op = "pow" /\ n = 0 /\ a = Dual(OfInt(2), One) /\ ret = a

\* C1: every Dual composed by add, sub and mul from the seed
\* Dual{real: x, grad: 1} and constants Dual{real: c, grad: 0} holds
\* real = f(x) and grad = f'(x), f being the polynomial composed.
Thm_C1 ==
    \A i \in 1..2 :
        /\ NumEq(reg[i].real, OfInt(PolyEval(poly[i], x, 1)))
        /\ NumEq(reg[i].grad, OfInt(PolyDeriv(poly[i], x, 2)))

\* (x - 1) * (x - 1) * x at x = 3: value 12, derivative 3x^2 - 4x + 1 = 16
Wit_C1 ==
    /\ x = 3
    /\ calls = 3
    /\ poly[1] = <<0, 1, -2, 1>>
    /\ reg[1] = Dual(OfInt(12), OfInt(16))

\* C6: after `a op= b` the receiver holds exactly the pair `a op b` returns
\* and b is unchanged, for add, sub, mul and div.
Thm_C6 ==
    /\ op = "add_assign" => (a = add(a0, b0) /\ b = b0)
    /\ op = "sub_assign" => (a = sub(a0, b0) /\ b = b0)
    /\ op = "mul_assign" => (a = mul(a0, b0) /\ b = b0)
    /\ op = "div_assign" => (a = div(a0, b0) /\ b = b0)

Wit_C6 ==
    /\ op = "div_assign"
    /\ a0 = Dual(One, OfInt(-1))
    /\ b0 = Dual(OfInt(-1), One)
    /\ a = Dual(OfInt(-1), OfInt(2))

====
